---- MODULE Spec2Model ----
(***************************************************************************)
(* Model of the two utilities of the documentation repository:             *)
(*   - tests/test_frontmatter_titles.py (navigation-title validator)       *)
(*   - generate_python_api_docs.py      (API-reference generator)          *)
(*                                                                         *)
(* A Python str is a sequence of one-character strings, so that strip,     *)
(* split, startswith, replace and title are computed character by          *)
(* character as the interpreter computes them.                             *)
(***************************************************************************)
EXTENDS Integers, Sequences, FiniteSets, TLC

(***************************************************************************)
(* Bounds of the model.                                                    *)
(***************************************************************************)
\* longest module_list given to _find_container_modules alone
MaxModules == 3
\* most files sdk_path.rglob yields in the generator specification
MaxCandidates == 3
\* longest document, in lines, of the frontmatter specification
MaxDocLines == 4
\* most nodes (mappings, lists and leaves) of a navigation tree of the
\* navigation specification
MaxNavNodes == 5
\* most entries of the top-level navigation list of the validator specification
MaxValItems == 2

(***************************************************************************)
(* Python str primitives.                                                  *)
(***************************************************************************)
Lowers == <<"a","b","c","d","e","f","g","h","i","j","k","l","m",
            "n","o","p","q","r","s","t","u","v","w","x","y","z">>
Uppers == <<"A","B","C","D","E","F","G","H","I","J","K","L","M",
            "N","O","P","Q","R","S","T","U","V","W","X","Y","Z">>

IsLowerCh(c) == \E k \in 1..Len(Lowers) : Lowers[k] = c
IsUpperCh(c) == \E k \in 1..Len(Uppers) : Uppers[k] = c
IsCased(c) == IsLowerCh(c) \/ IsUpperCh(c)
ToUpperCh(c) ==
  IF IsLowerCh(c) THEN Uppers[CHOOSE k \in 1..Len(Lowers) : Lowers[k] = c] ELSE c
ToLowerCh(c) ==
  IF IsUpperCh(c) THEN Lowers[CHOOSE k \in 1..Len(Uppers) : Uppers[k] = c] ELSE c

\* str.isspace() of one character
IsSpace(c) == c \in {" ", "\t", "\n", "\r"}

\* str.lower()
Lower(s) == [k \in 1..Len(s) |-> ToLowerCh(s[k])]

\* str.replace(old, new) for one-character old and new
Replace(s, old, new) == [k \in 1..Len(s) |-> IF s[k] = old THEN new ELSE s[k]]

\* str.title(): a cased character is upper-cased when it follows an uncased
\* character (or starts the string) and lower-cased otherwise
Title(s) ==
  [k \in 1..Len(s) |->
     IF k = 1 \/ ~IsCased(s[k-1]) THEN ToUpperCh(s[k]) ELSE ToLowerCh(s[k])]

\* str.startswith(prefix)
StartsWith(s, prefix) ==
  Len(s) >= Len(prefix) /\ SubSeq(s, 1, Len(prefix)) = prefix

RECURSIVE LStrip(_)
LStrip(s) == IF s # <<>> /\ IsSpace(Head(s)) THEN LStrip(Tail(s)) ELSE s

RECURSIVE RStrip(_)
RStrip(s) ==
  IF s # <<>> /\ IsSpace(s[Len(s)]) THEN RStrip(SubSeq(s, 1, Len(s) - 1)) ELSE s

\* str.strip()
Strip(s) == RStrip(LStrip(s))

\* index of the first occurrence of character c in s, 0 when there is none
FirstIndex(s, c) ==
  IF \E k \in 1..Len(s) : s[k] = c
  THEN CHOOSE k \in 1..Len(s) : s[k] = c /\ \A j \in 1..(k-1) : s[j] # c
  ELSE 0

\* index of the last occurrence of character c in s, 0 when there is none
LastIndex(s, c) ==
  IF \E k \in 1..Len(s) : s[k] = c
  THEN CHOOSE k \in 1..Len(s) : s[k] = c /\ \A j \in (k+1)..Len(s) : s[j] # c
  ELSE 0

\* str.split('\n'): always at least one piece
RECURSIVE SplitLines(_)
SplitLines(s) ==
  LET k == FirstIndex(s, "\n")
  IN  IF k = 0 THEN <<s>>
      ELSE <<SubSeq(s, 1, k - 1)>> \o SplitLines(SubSeq(s, k + 1, Len(s)))

\* '\n'.join(lines)
RECURSIVE JoinLines(_)
JoinLines(lines) ==
  IF lines = <<>> THEN <<>>
  ELSE IF Len(lines) = 1 THEN lines[1]
  ELSE lines[1] \o <<"\n">> \o JoinLines(Tail(lines))

(***************************************************************************)
(* extract_existing_frontmatter (tests/test_frontmatter_titles.py:45-72).  *)
(***************************************************************************)
Delim == <<"-", "-", "-">>

\* FindClosing comparing the line itself, not its stripped form
FindClosingNoStrip(lines) ==
  IF \E k \in 2..Len(lines) : lines[k] = Delim
  THEN CHOOSE k \in 2..Len(lines) :
         /\ lines[k] = Delim
         /\ \A j \in 2..(k-1) : lines[j] # Delim
  ELSE 0

\* FindClosing taking the end of the document for the closing delimiter
\* when no line closes the block
FindClosingOrEnd(lines) ==
  IF \E k \in 2..Len(lines) : Strip(lines[k]) = Delim
  THEN CHOOSE k \in 2..Len(lines) :
         /\ Strip(lines[k]) = Delim
         /\ \A j \in 2..(k-1) : Strip(lines[j]) # Delim
  ELSE Len(lines) + 1

\* FindClosing taking the last delimiter line, not the first
FindClosingLast(lines) ==
  IF \E k \in 2..Len(lines) : Strip(lines[k]) = Delim
  THEN CHOOSE k \in 2..Len(lines) :
         /\ Strip(lines[k]) = Delim
         /\ \A j \in (k+1)..Len(lines) : Strip(lines[j]) # Delim
  ELSE 0

\* the 1-based index of the first line after the first whose stripped form is
\* the delimiter, 0 when there is none (the loop of lines 60-64)
FindClosing(lines) ==
  IF \E k \in 2..Len(lines) : Strip(lines[k]) = Delim
  THEN CHOOSE k \in 2..Len(lines) :
         /\ Strip(lines[k]) = Delim
         /\ \A j \in 2..(k-1) : Strip(lines[j]) # Delim
  ELSE 0

\* ExtractExistingFrontmatter without the test of line 56: a first line that
\* merely starts with the delimiter opens a block
ExtractPrefixOnly(content) ==
  IF ~StartsWith(Strip(content), Delim) THEN <<<<>>, content>>
  ELSE LET lines == SplitLines(content)
           end_idx == FindClosing(lines)
       IN  IF end_idx = 0 THEN <<<<>>, content>>
           ELSE << JoinLines(SubSeq(lines, 2, end_idx - 1)),
                   JoinLines(SubSeq(lines, end_idx + 1, Len(lines))) >>

\* ExtractExistingFrontmatter splitting the stripped text: leading blank
\* lines do not hide the block
ExtractFromStripped(content) ==
  IF ~StartsWith(Strip(content), Delim) THEN <<<<>>, content>>
  ELSE LET lines == SplitLines(Strip(content))
       IN  IF Strip(lines[1]) # Delim THEN <<<<>>, content>>
           ELSE LET end_idx == FindClosing(lines)
                IN  IF end_idx = 0 THEN <<<<>>, content>>
                    ELSE << JoinLines(SubSeq(lines, 2, end_idx - 1)),
                            JoinLines(SubSeq(lines, end_idx + 1, Len(lines))) >>

\* returns <<frontmatter, remaining_content>>
ExtractExistingFrontmatter(content) ==
  IF ~StartsWith(Strip(content), Delim) THEN <<<<>>, content>>
  ELSE LET lines == SplitLines(content)
       IN  IF Strip(lines[1]) # Delim THEN <<<<>>, content>>
           ELSE LET end_idx == FindClosing(lines)
                IN  IF end_idx = 0 THEN <<<<>>, content>>
                    ELSE << JoinLines(SubSeq(lines, 2, end_idx - 1)),
                            JoinLines(SubSeq(lines, end_idx + 1, Len(lines))) >>

(***************************************************************************)
(* pathlib: the last component of a path, its stem and its suffix.         *)
(***************************************************************************)
PathName(p) == SubSeq(p, LastIndex(p, "/") + 1, Len(p))

\* PurePath.suffix: from the last dot of the name, unless that dot is the
\* first or the last character of the name
PathSuffix(p) ==
  LET name == PathName(p)
      k == LastIndex(name, ".")
  IN  IF 1 < k /\ k < Len(name) THEN SubSeq(name, k, Len(name)) ELSE <<>>

\* PurePath.stem
PathStem(p) ==
  LET name == PathName(p)
      k == LastIndex(name, ".")
  IN  IF 1 < k /\ k < Len(name) THEN SubSeq(name, 1, k - 1) ELSE name

(***************************************************************************)
(* Python dict: insertion-ordered, a sequence of <<key, value>> pairs with *)
(* distinct keys.                                                          *)
(***************************************************************************)
DictHas(d, k) == \E n \in 1..Len(d) : d[n][1] = k
DictGet(d, k) == d[CHOOSE n \in 1..Len(d) : d[n][1] = k][2]
DictKeys(d) == {d[n][1] : n \in 1..Len(d)}

\* DictSet as setdefault: an existing key keeps its value
DictSetKeepFirst(d, k, v) ==
  IF DictHas(d, k) THEN d ELSE Append(d, <<k, v>>)

\* d[k] = v: an existing key keeps its position and takes the new value
DictSet(d, k, v) ==
  IF DictHas(d, k)
  THEN [n \in 1..Len(d) |-> IF d[n][1] = k THEN <<k, v>> ELSE d[n]]
  ELSE Append(d, <<k, v>>)

\* d.update(e)
RECURSIVE DictUpdate(_, _)
DictUpdate(d, e) ==
  IF e = <<>> THEN d
  ELSE DictUpdate(DictSet(d, e[1][1], e[1][2]), Tail(e))

(***************************************************************************)
(* Navigation tree: the value yaml loads for the nav key.  A node is       *)
(*   [tag |-> "str",  val |-> path]                                        *)
(*   [tag |-> "list", val |-> sequence of nodes]                           *)
(*   [tag |-> "dict", val |-> sequence of <<label, node>>, labels distinct]*)
(*   [tag |-> "none", val |-> <<>>]   (null or another scalar)             *)
(***************************************************************************)
NavStr(p) == [tag |-> "str", val |-> p]
NavList(items) == [tag |-> "list", val |-> items]
NavDict(entries) == [tag |-> "dict", val |-> entries]
NavNone == [tag |-> "none", val |-> <<>>]

\* DerivedTitle with the second replace of line 39 left out
DerivedTitleHyphenOnly(p) == Title(Replace(PathStem(p), "-", " "))

\* lines 38-39: the title derived from a path that has no label
DerivedTitle(p) == Title(Replace(Replace(PathStem(p), "-", " "), "_", " "))

\* extract_nav_titles (tests/test_frontmatter_titles.py:11-42)
RECURSIVE ExtractNavTitles(_)
RECURSIVE NavDictLoop(_, _)
RECURSIVE NavListLoop(_, _)
\* NavDictLoop giving a labelled leaf the title derived from its file name
RECURSIVE NavDictLoopDerived(_, _)
NavDictLoopDerived(entries, acc) ==
  IF entries = <<>> THEN acc
  ELSE LET title == entries[1][1]
           content == entries[1][2]
           next == IF content.tag = "str"
                   THEN DictSet(acc, content.val, DerivedTitle(content.val))
                   ELSE IF content.tag \in {"list", "dict"}
                        THEN DictUpdate(acc, ExtractNavTitles(content))
                   ELSE acc
       IN  NavDictLoopDerived(Tail(entries), next)
\* NavDictLoop giving the label of a group to every document below it
RECURSIVE NavDictLoopGroupLabel(_, _)
NavDictLoopGroupLabel(entries, acc) ==
  IF entries = <<>> THEN acc
  ELSE LET title == entries[1][1]
           content == entries[1][2]
           below == ExtractNavTitles(content)
           next == IF content.tag = "str" THEN DictSet(acc, content.val, title)
                   ELSE IF content.tag \in {"list", "dict"}
                        THEN DictUpdate(acc, [k \in 1..Len(below) |-> <<below[k][1], title>>])
                   ELSE acc
       IN  NavDictLoopGroupLabel(Tail(entries), next)
\* the loop of lines 25-31 over the entries of a mapping, from file_titles = acc
NavDictLoop(entries, acc) ==
  IF entries = <<>> THEN acc
  ELSE LET title == entries[1][1]
           content == entries[1][2]
           next == IF content.tag = "str" THEN DictSet(acc, content.val, title)
                   ELSE IF content.tag \in {"list", "dict"}
                        THEN DictUpdate(acc, ExtractNavTitles(content))
                   ELSE acc
       IN  NavDictLoop(Tail(entries), next)
\* the loop of lines 33-34 over the items of a list
NavListLoop(items, acc) ==
  IF items = <<>> THEN acc
  ELSE NavListLoop(Tail(items), DictUpdate(acc, ExtractNavTitles(items[1])))
ExtractNavTitles(nav_item) ==
  IF nav_item.tag = "dict" THEN NavDictLoop(nav_item.val, <<>>)
  ELSE IF nav_item.tag = "list" THEN NavListLoop(nav_item.val, <<>>)
  ELSE IF nav_item.tag = "str"
       THEN <<<<nav_item.val, DerivedTitle(nav_item.val)>>>>
  ELSE <<>>

(***************************************************************************)
(* yaml.safe_load of a frontmatter text (the call of line 129).  PyYAML is *)
(* a library outside the repository; it is modelled on block mappings of   *)
(* plain scalars, one "key: value" per line:                               *)
(*   - a blank line or a comment line contributes nothing;                 *)
(*   - "key: value" is a mapping entry, a later duplicate key overwrites;  *)
(*   - a value that opens a flow sequence and never closes it, or a plain  *)
(*     scalar line mixed with mapping entries, is a YAMLError;             *)
(*   - a text of plain scalar lines only loads as a str;                   *)
(*   - a text with no entry and no scalar loads as None.                   *)
(* The result is [kind |-> "error" | "none" | "map" | "str", val |-> ...]. *)
(***************************************************************************)
\* index of the first ": " of a line (or of a closing ":"), 0 when none
ColonIndex(line) ==
  LET Hit(k) == line[k] = ":" /\ (k = Len(line) \/ line[k+1] = " ")
  IN  IF \E k \in 1..Len(line) : Hit(k)
      THEN CHOOSE k \in 1..Len(line) : Hit(k) /\ \A j \in 1..(k-1) : ~Hit(j)
      ELSE 0

YamlLineKind(line) ==
  LET t == Strip(line)
      c == ColonIndex(t)
      v == Strip(SubSeq(t, c + 1, Len(t)))
  IN  IF t = <<>> \/ Head(t) = "#" THEN "blank"
      ELSE IF c = 0 THEN "scalar"
      ELSE IF v # <<>> /\ Head(v) = "[" /\ v[Len(v)] # "]" THEN "bad"
      ELSE "entry"

YamlEntry(line) ==
  LET t == Strip(line)
      c == ColonIndex(t)
  IN  << Strip(SubSeq(t, 1, c - 1)), Strip(SubSeq(t, c + 1, Len(t))) >>

RECURSIVE YamlEntries(_, _)
YamlEntries(lines, acc) ==
  IF lines = <<>> THEN acc
  ELSE IF YamlLineKind(lines[1]) = "entry"
       THEN YamlEntries(Tail(lines),
                        DictSet(acc, YamlEntry(lines[1])[1], YamlEntry(lines[1])[2]))
  ELSE YamlEntries(Tail(lines), acc)

SafeLoad(text) ==
  LET lines == SplitLines(text)
      kinds == {YamlLineKind(lines[k]) : k \in 1..Len(lines)}
  IN  IF "bad" \in kinds \/ {"scalar", "entry"} \subseteq kinds
      THEN [kind |-> "error", val |-> <<>>]
      ELSE IF "entry" \in kinds
           THEN [kind |-> "map", val |-> YamlEntries(lines, <<>>)]
      ELSE IF "scalar" \in kinds
           THEN [kind |-> "str", val |-> Strip(text)]
      ELSE [kind |-> "none", val |-> <<>>]

\* substring test: 'title' in fm_data when fm_data is a str
Contains(s, sub) ==
  \E k \in 1..(Len(s) - Len(sub) + 1) : SubSeq(s, k, k + Len(sub) - 1) = sub

TitleKey == <<"t", "i", "t", "l", "e">>

(***************************************************************************)
(* State.                                                                  *)
(*   pc      position of the run                                           *)
(*   config  state of mkdocs.yml: "absent", "malformed", "no_nav" or "ok"  *)
(*   nav     the navigation tree mkdocs.yml declares                       *)
(*   fs      the documents on disk: <<dir, path>> |-> kind of file, for    *)
(*           dir "root" (beside mkdocs.yml) and "docs" (its docs/ folder)  *)
(*   file_titles, missing_files, files_without_titles,                     *)
(*   files_with_wrong_titles, errors                                       *)
(*           the locals of test_all_referenced_files_have_titles           *)
(*   idx     1-based position of the for loop of line 92 in file_titles    *)
(*   exc     the exception that ended the run, "none" while there is none  *)
(*   content, fm_out                                                       *)
(*           argument and result of extract_existing_frontmatter           *)
(*   fm_again                                                              *)
(*           result of extract_existing_frontmatter on fm_out's body       *)
(***************************************************************************)
VARIABLES pc, config, nav, fs, file_titles, idx, missing_files,
          files_without_titles, files_with_wrong_titles, errors, exc,
          content, fm_out, fm_again

(***************************************************************************)
(* State of the generator (generate_python_api_docs.py).                   *)
(*   scratch     temp_python_sdk: "none" (no such directory), "partial"    *)
(*               (the directory without src/strands) or "full" (with it)   *)
(*   clone       how subprocess.run of line 31 ended                       *)
(*   candidates  the files sdk_path.rglob('*.py') yields, in its order,    *)
(*               each with what importing its module does                  *)
(*   item        1-based position of the for loop of line 42               *)
(*   modules     the list of line 41                                       *)
(*   categories  the dict of line 58                                       *)
(*   cat         1-based position of the for loop of line 68               *)
(*   listings    the files written under docs/api-reference, by name       *)
(*   module_list, main_module                                              *)
(*               arguments of the last call of _find_container_modules     *)
(*   container_modules                                                     *)
(*               the set that call built (its local of line 9)             *)
(*   returned    the value that call returned                              *)
(***************************************************************************)
VARIABLES scratch, clone, candidates, item, modules, categories, cat,
          listings, module_list, main_module, container_modules, returned

valvars == << config, nav, fs, file_titles, idx, missing_files,
              files_without_titles, files_with_wrong_titles, errors,
              content, fm_out, fm_again >>

genvars == << scratch, clone, candidates, item, modules, categories, cat,
              listings, module_list, main_module, container_modules, returned >>

vars == << pc, exc, valvars, genvars >>

\* the Python value None
NoneValue == [kind |-> "None", val |-> {}]

\* the generator before on_pre_build is called
GenIdle ==
  /\ scratch = "none"
  /\ clone = "none"
  /\ candidates = <<>>
  /\ item = 1
  /\ modules = <<>>
  /\ categories = <<>>
  /\ cat = 1
  /\ listings = <<>>
  /\ module_list = <<>>
  /\ main_module = <<>>
  /\ container_modules = {}
  /\ returned = NoneValue

\* the validator before test_all_referenced_files_have_titles is called
ValIdle ==
  /\ config = "ok"
  /\ nav = [tag |-> "list", val |-> <<>>]
  /\ fs = <<>>
  /\ file_titles = <<>>
  /\ idx = 1
  /\ missing_files = <<>>
  /\ files_without_titles = <<>>
  /\ files_with_wrong_titles = <<>>
  /\ errors = <<>>
  /\ content = <<>>
  /\ fm_out = <<>>
  /\ fm_again = <<>>

(***************************************************************************)
(* Documents of the validator specification.                               *)
(***************************************************************************)
LineTitleGuide == <<"t","i","t","l","e",":"," ","G","u","i","d","e">>
LineAuthor == <<"a","u","t","h","o","r",":"," ","x">>
LineTitleOpen == <<"t","i","t","l","e",":"," ","[">>
LineSubtitle == <<"s","u","b","t","i","t","l","e">>
LineBody == <<"b","o","d","y">>

\* what a file of each kind holds
FileContent(kind) ==
  CASE kind = "NoFm"    -> JoinLines(<<LineBody>>)
    [] kind = "Guide"   -> JoinLines(<<Delim, LineTitleGuide, Delim, LineBody>>)
    [] kind = "NoTitle" -> JoinLines(<<Delim, LineAuthor, Delim, LineBody>>)
    [] kind = "Bad"     -> JoinLines(<<Delim, LineTitleOpen, Delim, LineBody>>)
    [] kind = "Scalar"  -> JoinLines(<<Delim, LineSubtitle, Delim, LineBody>>)
    [] OTHER            -> <<>>

\* "Absent": no such file; "Unreadable": exists, but open or read raises
\* (a directory, a file that is not UTF-8)
FileKinds == {"Absent", "Unreadable", "NoFm", "Guide", "NoTitle", "Bad", "Scalar"}

StrHttp == <<"h","t","t","p">>
SuffixMd == <<".","m","d">>
SuffixMarkdown == <<".","m","a","r","k","d","o","w","n">>
DocsPrefix == <<"d","o","c","s","/">>

\* Path.exists()
Exists(dir, p) == <<dir, p>> \in DOMAIN fs /\ fs[<<dir, p>>] # "Absent"

\* ResolveDir without the fallback of lines 100-102
ResolveDirRootOnly(p) == "root"

\* ResolveDir trying docs/ before the root
ResolveDirDocsFirst(p) ==
  IF Exists("docs", p) THEN "docs" ELSE "root"

\* lines 98-102: the root first, docs/ when the root has no such file
ResolveDir(p) ==
  IF ~Exists("root", p) /\ Exists("docs", p) THEN "docs" ELSE "root"

\* str(file_path)
PathStr(dir, p) == IF dir = "docs" THEN DocsPrefix \o p ELSE p

\* line 94
IsSkippedLink(p) == StartsWith(p, StrHttp)

\* IsMarkdown without the suffix test of line 105
IsMarkdownAlways(p) == TRUE

\* line 105
IsMarkdown(p) == Lower(PathSuffix(p)) \in {SuffixMd, SuffixMarkdown}

\* CheckLoaded with the parse failure of line 138 swallowed: the file counts
\* as one without a title
CheckLoadedLenient(frontmatter, fm_data, expected_title) ==
  IF frontmatter = <<>> \/ fm_data.kind \in {"error", "none"}
  THEN [out |-> "no_title", actual |-> <<>>]
  ELSE IF fm_data.kind = "str"
       THEN IF ~Contains(fm_data.val, TitleKey)
            THEN [out |-> "no_title", actual |-> <<>>]
            ELSE [out |-> "type_error", actual |-> <<>>]
  ELSE IF ~DictHas(fm_data.val, TitleKey)
       THEN [out |-> "no_title", actual |-> <<>>]
  ELSE IF DictGet(fm_data.val, TitleKey) # expected_title
       THEN [out |-> "wrong", actual |-> DictGet(fm_data.val, TitleKey)]
  ELSE [out |-> "ok", actual |-> DictGet(fm_data.val, TitleKey)]

\* lines 121-139 on the loaded frontmatter of one file
CheckLoaded(frontmatter, fm_data, expected_title) ==
  IF frontmatter = <<>> THEN [out |-> "no_title", actual |-> <<>>]
  ELSE IF fm_data.kind = "error" THEN [out |-> "parse_error", actual |-> <<>>]
  ELSE IF fm_data.kind = "none" THEN [out |-> "no_title", actual |-> <<>>]
  ELSE IF fm_data.kind = "str"
       THEN IF ~Contains(fm_data.val, TitleKey)
            THEN [out |-> "no_title", actual |-> <<>>]
            ELSE [out |-> "type_error", actual |-> <<>>]
  ELSE IF ~DictHas(fm_data.val, TitleKey)
       THEN [out |-> "no_title", actual |-> <<>>]
  ELSE IF DictGet(fm_data.val, TitleKey) # expected_title
       THEN [out |-> "wrong", actual |-> DictGet(fm_data.val, TitleKey)]
  ELSE [out |-> "ok", actual |-> DictGet(fm_data.val, TitleKey)]

\* lines 121 and 129 on the text of one file: <<frontmatter, fm_data>>
LoadFrontmatter(text) ==
  LET frontmatter == ExtractExistingFrontmatter(text)[1]
  IN  << frontmatter, SafeLoad(frontmatter) >>

\* LoadFrontmatter of the files of each kind, computed once
LoadedKind == [kind \in FileKinds |-> LoadFrontmatter(FileContent(kind))]

\* lines 121-139 on a file of the given kind
CheckKind(kind, expected_title) ==
  CheckLoaded(LoadedKind[kind][1], LoadedKind[kind][2], expected_title)

\* CheckPath without the existence check of lines 108-111: open raises on
\* the absent file and line 118 turns that into a read error
CheckPathNoExistsCheck(p, expected_title) ==
  LET dir == ResolveDir(p)
  IN  IF IsSkippedLink(p) THEN [out |-> "skip_link", actual |-> <<>>]
      ELSE IF ~IsMarkdown(p) THEN [out |-> "skip_type", actual |-> <<>>]
      ELSE IF ~Exists(dir, p) \/ fs[<<dir, p>>] = "Unreadable"
           THEN [out |-> "read_error", actual |-> <<>>]
      ELSE CheckKind(fs[<<dir, p>>], expected_title)

\* one iteration of the loop of lines 92-139 on a path of the mapping:
\* "skip_link", "skip_type", "missing", "read_error", or what CheckContent says
CheckPath(p, expected_title) ==
  LET dir == ResolveDir(p)
  IN  IF IsSkippedLink(p) THEN [out |-> "skip_link", actual |-> <<>>]
      ELSE IF ~IsMarkdown(p) THEN [out |-> "skip_type", actual |-> <<>>]
      ELSE IF ~Exists(dir, p) THEN [out |-> "missing", actual |-> <<>>]
      ELSE IF fs[<<dir, p>>] = "Unreadable"
           THEN [out |-> "read_error", actual |-> <<>>]
      ELSE CheckKind(fs[<<dir, p>>], expected_title)

(***************************************************************************)
(* The run of test_all_referenced_files_have_titles (lines 75-159).        *)
(***************************************************************************)
ExcReport == "AssertionError: report"
ExcRead == "AssertionError: Error reading"
ExcParse == "AssertionError: Error parsing frontmatter"

\* lines 79-85: open and load mkdocs.yml, take its nav, flatten it
LoadConfig ==
  /\ pc = "start"
  /\ IF config = "ok"
     THEN /\ file_titles' = ExtractNavTitles(nav)
          /\ pc' = "loop"
          /\ exc' = exc
     ELSE /\ exc' = CASE config = "absent"    -> "FileNotFoundError"
                      [] config = "malformed" -> "YAMLError"
                      [] OTHER                -> "KeyError"
          /\ pc' = "raised"
          /\ file_titles' = file_titles
  /\ UNCHANGED << config, nav, fs, idx, missing_files, files_without_titles,
                  files_with_wrong_titles, errors, content, fm_out, fm_again >>
  /\ UNCHANGED genvars

\* lines 92-139: one iteration of the loop over file_titles.items()
CheckFile ==
  /\ pc = "loop"
  /\ idx <= Len(file_titles)
  /\ LET p == file_titles[idx][1]
         expected_title == file_titles[idx][2]
         r == CheckPath(p, expected_title)
         file_path == PathStr(ResolveDir(p), p)
     IN  /\ missing_files' =
              IF r.out = "missing" THEN Append(missing_files, p) ELSE missing_files
         /\ files_without_titles' =
              IF r.out = "no_title" THEN Append(files_without_titles, file_path)
              ELSE files_without_titles
         /\ files_with_wrong_titles' =
              IF r.out = "wrong"
              THEN Append(files_with_wrong_titles,
                          [file |-> file_path, expected |-> expected_title,
                           actual |-> r.actual])
              ELSE files_with_wrong_titles
         /\ IF r.out \in {"read_error", "parse_error", "type_error"}
            THEN /\ pc' = "raised"
                 /\ exc' = CASE r.out = "read_error"  -> ExcRead
                             [] r.out = "parse_error" -> ExcParse
                             [] OTHER                 -> "TypeError"
                 /\ idx' = idx
            ELSE /\ pc' = pc
                 /\ exc' = exc
                 /\ idx' = idx + 1
  /\ UNCHANGED << config, nav, fs, file_titles, errors, content, fm_out, fm_again >>
  /\ UNCHANGED genvars

\* BuildErrors with the sections of lines 147-154 left out
BuildErrorsMissingOnly ==
  IF missing_files # <<>>
  THEN << [section |-> "missing", items |-> missing_files] >> ELSE <<>>

\* lines 142-154: the sections of the aggregated report
BuildErrors ==
  (IF missing_files # <<>>
   THEN << [section |-> "missing", items |-> missing_files] >> ELSE <<>>)
  \o (IF files_without_titles # <<>>
      THEN << [section |-> "no_title", items |-> files_without_titles] >> ELSE <<>>)
  \o (IF files_with_wrong_titles # <<>>
      THEN << [section |-> "wrong", items |-> files_with_wrong_titles] >> ELSE <<>>)

\* lines 141-159: after the loop, raise the aggregated report or print success
Report ==
  /\ pc = "loop"
  /\ idx > Len(file_titles)
  /\ errors' = BuildErrors
  /\ IF errors' # <<>>
     THEN pc' = "raised" /\ exc' = ExcReport
     ELSE pc' = "passed" /\ exc' = exc
  /\ UNCHANGED << config, nav, fs, file_titles, idx, missing_files,
                  files_without_titles, files_with_wrong_titles, content, fm_out, fm_again >>
  /\ UNCHANGED genvars

(***************************************************************************)
(* Inputs of the validator specification.                                  *)
(***************************************************************************)
PathA == <<"a",".","m","d">>
PathC == <<"c",".","m","d">>
PathTxt == <<"b",".","t","x","t">>
PathHttp == <<"h","t","t","p","-","a","p","i",".","m","d">>
PathUrl == <<"h","t","t","p","s",":","/","/","x",".","m","d">>
LabelGuide == <<"G","u","i","d","e">>

ValPaths == {PathA, PathC, PathTxt, PathHttp, PathUrl}
ValLabels == {LabelGuide}

\* an absolute URL
IsUrl(p) ==
  \/ StartsWith(p, <<"h","t","t","p",":","/","/">>)
  \/ StartsWith(p, <<"h","t","t","p","s",":","/","/">>)

\* the entries of the top-level nav list: "path" or {label: "path"}
ValItems ==
  {NavStr(p) : p \in ValPaths}
  \cup {NavDict(<< <<l, NavStr(p)>> >>) : l \in ValLabels, p \in ValPaths}

ValNavs ==
  {NavList(items) : items \in UNION {[1..n -> ValItems] : n \in 0..MaxValItems}}

\* the leaf occurrences of a tree in depth-first document order, each
\* [path, labelled, label]
RECURSIVE NavLeaves(_)
RECURSIVE NavLeavesOfList(_)
RECURSIVE NavLeavesOfDict(_)
NavLeavesOfList(items) ==
  IF items = <<>> THEN <<>>
  ELSE NavLeaves(items[1]) \o NavLeavesOfList(Tail(items))
NavLeavesOfDict(entries) ==
  IF entries = <<>> THEN <<>>
  ELSE (IF entries[1][2].tag = "str"
        THEN << [path |-> entries[1][2].val, labelled |-> TRUE,
                 label |-> entries[1][1]] >>
        ELSE NavLeaves(entries[1][2]))
       \o NavLeavesOfDict(Tail(entries))
NavLeaves(node) ==
  CASE node.tag = "str"  -> << [path |-> node.val, labelled |-> FALSE, label |-> <<>>] >>
    [] node.tag = "list" -> NavLeavesOfList(node.val)
    [] node.tag = "dict" -> NavLeavesOfDict(node.val)
    [] OTHER             -> <<>>

NavPaths(node) == {NavLeaves(node)[k].path : k \in 1..Len(NavLeaves(node))}

\* the files the tree can refer to, under both roots
FilesOf(node) ==
  {<<dir, p>> : dir \in {"root", "docs"}, p \in {q \in NavPaths(node) : ~IsUrl(q)}}

NoFiles == [f \in {} |-> "Absent"]

\* the kinds of file drawn for the copy under docs/: none, one with a title,
\* one without frontmatter
DocsKinds == {"Absent", "Guide", "NoFm"}

\* the file systems over the files a tree can refer to
FileSystems(node) ==
  LET rel == {q \in NavPaths(node) : ~IsUrl(q)}
  IN  {[x \in FilesOf(node) |-> IF x[1] = "root" THEN r[x[2]] ELSE d[x[2]]] :
         r \in [rel -> FileKinds], d \in [rel -> DocsKinds]}

Init ==
  /\ pc = "start"
  /\ \/ /\ config \in {"absent", "malformed", "no_nav"}
        /\ nav = NavList(<<>>)
        /\ fs = NoFiles
     \/ /\ config = "ok"
        /\ nav \in ValNavs
        /\ fs \in FileSystems(nav)
  /\ file_titles = <<>>
  /\ idx = 1
  /\ missing_files = <<>>
  /\ files_without_titles = <<>>
  /\ files_with_wrong_titles = <<>>
  /\ errors = <<>>
  /\ exc = "none"
  /\ content = <<>>
  /\ fm_out = <<>>
  /\ fm_again = <<>>
  /\ GenIdle

Next == LoadConfig \/ CheckFile \/ Report

Spec == Init /\ [][Next]_vars

(***************************************************************************)
(* Specification of extract_nav_titles alone: the function applied to      *)
(* every navigation tree within the bounds.                                *)
(***************************************************************************)
PathFoo == <<"f","o","o","-","b","a","r","_","b","a","z",".","m","d">>
PathApi == <<"x","/","A","P","I","-","r","e","f",".","m","d">>
LabelIntro == <<"I","n","t","r","o">>

TreePaths == {PathFoo, PathApi, PathA}
TreeLabels == {LabelGuide, LabelIntro}

\* the injective label sequences of length m: the keys of a mapping are
\* distinct, as yaml loads them
LabelSeqs(m) ==
  {ls \in [1..m -> TreeLabels] : \A j, k \in 1..m : j # k => ls[j] # ls[k]}

\* the lists and the mappings whose children are the trees of a sequence f
ContainersOf(f) ==
  {NavList(f)}
  \cup {NavDict([k \in 1..Len(f) |-> <<ls[k], f[k]>>]) : ls \in LabelSeqs(Len(f))}

\* the trees of exactly n nodes, and the sequences of trees of n nodes in all
RECURSIVE TreesOfSize(_)
RECURSIVE ForestsOfSize(_)
ForestsOfSize(n) ==
  IF n = 0 THEN {<<>>}
  ELSE UNION {{<<t>> \o f : t \in TreesOfSize(k), f \in ForestsOfSize(n - k)} :
                k \in 1..n}
TreesOfSize(n) ==
  (IF n = 1 THEN {NavStr(p) : p \in TreePaths} \cup {NavNone} ELSE {})
  \cup UNION {ContainersOf(f) : f \in ForestsOfSize(n - 1)}

\* the small ones, computed once
SmallTrees == [n \in 1..4 |-> TreesOfSize(n)]
SmallForests == [n \in 0..3 |-> ForestsOfSize(n)]
Trees(n) == IF n <= 4 THEN SmallTrees[n] ELSE TreesOfSize(n)
ForestsOf(n) == IF n <= 3 THEN SmallForests[n] ELSE ForestsOfSize(n)

\* nav is a tree of exactly n nodes
IsTreeOfSize(n) ==
  IF n = 1 THEN nav \in Trees(1)
  ELSE \E k \in 1..(n - 1) : \E t \in Trees(k) : \E f \in ForestsOf(n - 1 - k) :
         nav \in ContainersOf(<<t>> \o f)

InitNav ==
  /\ pc = "nav_start"
  /\ config = "ok"
  /\ \E n \in 1..MaxNavNodes : IsTreeOfSize(n)
  /\ fs = NoFiles
  /\ file_titles = <<>>
  /\ idx = 1
  /\ missing_files = <<>>
  /\ files_without_titles = <<>>
  /\ files_with_wrong_titles = <<>>
  /\ errors = <<>>
  /\ exc = "none"
  /\ content = <<>>
  /\ fm_out = <<>>
  /\ fm_again = <<>>
  /\ GenIdle

\* line 85: file_titles = extract_nav_titles(nav)
ExtractTitles ==
  /\ pc = "nav_start"
  /\ file_titles' = ExtractNavTitles(nav)
  /\ pc' = "nav_done"
  /\ UNCHANGED << config, nav, fs, idx, missing_files, files_without_titles,
                  files_with_wrong_titles, errors, exc, content, fm_out, fm_again >>
  /\ UNCHANGED genvars

NextNav == ExtractTitles

SpecNav == InitNav /\ [][NextNav]_vars

(***************************************************************************)
(* Specification of extract_existing_frontmatter alone: the function       *)
(* applied to every document within the bounds, then to the body it        *)
(* returned.                                                               *)
(***************************************************************************)
LinePadded == <<" ", "-", "-", "-", " ">>
LineDashes == <<"-", "-", "-", "-">>
LineBlank == <<>>

FmLines == {Delim, LinePadded, LineDashes, LineBlank, LineTitleGuide, LineBody}

FmDocs == {JoinLines(ls) : ls \in UNION {[1..n -> FmLines] : n \in 0..MaxDocLines}}

InitFm ==
  /\ pc = "fm_start"
  /\ config = "ok"
  /\ nav = NavList(<<>>)
  /\ fs = NoFiles
  /\ file_titles = <<>>
  /\ idx = 1
  /\ missing_files = <<>>
  /\ files_without_titles = <<>>
  /\ files_with_wrong_titles = <<>>
  /\ errors = <<>>
  /\ exc = "none"
  /\ content \in FmDocs
  /\ fm_out = <<>>
  /\ fm_again = <<>>
  /\ GenIdle

\* line 121: frontmatter, body = extract_existing_frontmatter(content)
ExtractOnce ==
  /\ pc = "fm_start"
  /\ fm_out' = ExtractExistingFrontmatter(content)
  /\ pc' = "fm_once"
  /\ UNCHANGED << config, nav, fs, file_titles, idx, missing_files,
                  files_without_titles, files_with_wrong_titles, errors, exc,
                  content, fm_again >>
  /\ UNCHANGED genvars

\* the function applied to the body it returned
ExtractAgain ==
  /\ pc = "fm_once"
  /\ fm_again' = ExtractExistingFrontmatter(fm_out[2])
  /\ pc' = "fm_twice"
  /\ UNCHANGED << config, nav, fs, file_titles, idx, missing_files,
                  files_without_titles, files_with_wrong_titles, errors, exc,
                  content, fm_out >>
  /\ UNCHANGED genvars

NextFm == ExtractOnce \/ ExtractAgain

SpecFm == InitFm /\ [][NextFm]_vars

(***************************************************************************)
(* _find_container_modules (generate_python_api_docs.py:8-20).             *)
(***************************************************************************)
\* str.split(sep) for a one-character sep: always at least one piece
RECURSIVE SplitOn(_, _)
SplitOn(s, sep) ==
  LET k == FirstIndex(s, sep)
  IN  IF k = 0 THEN <<s>>
      ELSE <<SubSeq(s, 1, k - 1)>> \o SplitOn(SubSeq(s, k + 1, Len(s)), sep)

\* sep.join(parts) for a one-character sep
RECURSIVE JoinOn(_, _)
JoinOn(parts, sep) ==
  IF parts = <<>> THEN <<>>
  ELSE IF Len(parts) = 1 THEN parts[1]
  ELSE parts[1] \o <<sep>> \o JoinOn(Tail(parts), sep)

\* x in lst, for a list
InList(lst, x) == \E n \in 1..Len(lst) : lst[n] = x

\* lines 13-15: the containers tried for one module, '.'.join(parts[:i+1])
\* for i in range(2, len(parts)), none when the module has two parts or less
ContainersTried(module) ==
  LET parts == SplitOn(module, ".")
  IN  IF Len(parts) > 2
      THEN {JoinOn(SubSeq(parts, 1, i + 1), ".") : i \in 2..(Len(parts) - 1)}
      ELSE {}

\* SubModules with startswith(container), the dot of line 18 left out
SubModulesNoDot(lst, container) ==
  SelectSeq(lst, LAMBDA m : StartsWith(m, container))

\* line 18: [m for m in module_list if m.startswith(container + '.')]
SubModules(lst, container) ==
  SelectSeq(lst, LAMBDA m : StartsWith(m, container \o <<".">>))

\* lines 9-20: the set container_modules when the loops end
ContainersBuilt(lst, main) ==
  {container \in UNION {ContainersTried(lst[n]) : n \in 1..Len(lst)} :
     /\ ~InList(lst, container)
     /\ container # main
     /\ Len(SubModules(lst, container)) > 1}

\* lines 8-20: the function has no return statement, so the call evaluates
\* to None whatever set it built
FindContainerModules(lst, main) ==
  [container_modules |-> ContainersBuilt(lst, main), returned |-> NoneValue]

(***************************************************************************)
(* Specification of _find_container_modules alone: the function applied    *)
(* to every list of distinct module names within the bounds.               *)
(***************************************************************************)
\* the module names of the lists, as Python strings
Name ==
  [ ab |-> <<"a",".","b">>,
    abcdx |-> <<"a",".","b",".","c",".","d",".","x">>,
    abcdy |-> <<"a",".","b",".","c",".","d",".","y">>,
    abcd |-> <<"a",".","b",".","c",".","d">>,
    abcx |-> <<"a",".","b",".","c",".","x">>,
    ab_cx |-> <<"a",".","b",".","c","x">>,
    abc |-> <<"a",".","b",".","c">>,
    abe |-> <<"a",".","b",".","e">>,
    pkg_tools |-> <<"p","k","g",".","t","o","o","l","s">>,
    pkg_fs_read |-> <<"p","k","g",".","t","o","o","l","s",".","f","s",".","r","e","a","d">>,
    pkg_fs_write |-> <<"p","k","g",".","t","o","o","l","s",".","f","s",".","w","r","i","t","e">>,
    pkg_fs |-> <<"p","k","g",".","t","o","o","l","s",".","f","s">>,
    pkg_net |-> <<"p","k","g",".","t","o","o","l","s",".","n","e","t">> ]

NamesAB == {Name.ab, Name.abc, Name.abcd, Name.abcx, Name.abcdx, Name.abcdy, Name.ab_cx, Name.abe}
NamesPkg == {Name.pkg_tools, Name.pkg_fs, Name.pkg_fs_read, Name.pkg_fs_write, Name.pkg_net}

\* the lists of at most MaxModules distinct names of a set
ListsOf(names) ==
  UNION {{l \in [1..n -> names] : \A j, k \in 1..n : j # k => l[j] # l[k]} :
           n \in 0..MaxModules}

InitContainers ==
  /\ pc = "fc_start"
  /\ exc = "none"
  /\ \/ main_module = Name.ab /\ module_list \in ListsOf(NamesAB)
     \/ main_module = Name.pkg_tools /\ module_list \in ListsOf(NamesPkg)
  /\ scratch = "none"
  /\ clone = "none"
  /\ candidates = <<>>
  /\ item = 1
  /\ modules = <<>>
  /\ categories = <<>>
  /\ cat = 1
  /\ listings = <<>>
  /\ container_modules = {}
  /\ returned = NoneValue
  /\ ValIdle

\* line 73: container_modules = _find_container_modules(module_list, main_module)
FindContainers ==
  /\ pc = "fc_start"
  /\ LET r == FindContainerModules(module_list, main_module)
     IN  /\ container_modules' = r.container_modules
         /\ returned' = r.returned
  /\ pc' = "fc_done"
  /\ UNCHANGED << exc, valvars, scratch, clone, candidates, item, modules,
                  categories, cat, listings, module_list, main_module >>

NextContainers == FindContainers

SpecContainers == InitContainers /\ [][NextContainers]_vars

(***************************************************************************)
(* on_pre_build (generate_python_api_docs.py:22-101).                      *)
(***************************************************************************)
\* lines 25-26: sdk_path.parent, the directory module paths are relative to
SdkParent == <<"t","e","m","p","_","p","y","t","h","o","n","_","s","d","k","/","s","r","c">>
MainPrefix == <<"s","t","r","a","n","d","s",".">>

\* line 43: item.name.startswith('_')
IsPrivate(path) == StartsWith(PathName(path), <<"_">>)

\* lines 45-46: the path relative to sdk_path.parent, its suffix dropped,
\* every '/' replaced by '.'
ModuleOf(path) ==
  LET rel_path == SubSeq(path, Len(SdkParent) + 2, Len(path))
      stripped == SubSeq(rel_path, 1, Len(rel_path) - Len(PathSuffix(rel_path)))
  IN  Replace(stripped, "/", ".")

\* CategoryOf taking the first dotted segment
CategoryOfFirst(parts) == parts[1]

\* line 62: category = parts[1], the second dotted segment
CategoryOf(parts) == parts[2]

\* lines 58-65: group the modules by category, in the order of the list
RECURSIVE Categorize(_, _)
Categorize(mods, acc) ==
  IF mods = <<>> THEN acc
  ELSE LET module == Head(mods)
           parts == SplitOn(module, ".")
       IN  IF Len(parts) >= 2
           THEN LET category == CategoryOf(parts)
                    lst == IF DictHas(acc, category) THEN DictGet(acc, category)
                           ELSE <<>>
                IN  Categorize(Tail(mods), DictSet(acc, category, Append(lst, module)))
           ELSE Categorize(Tail(mods), acc)

\* the characters of module names in code point order ('.' is 46, '_' is 95,
\* the lower-case letters 97 to 122), and str < str as Python compares
Ord(c) ==
  LET CodePoints == <<".", "_">> \o Lowers
  IN  CHOOSE k \in 1..Len(CodePoints) : CodePoints[k] = c
RECURSIVE StrLess(_, _)
StrLess(a, b) ==
  IF b = <<>> THEN FALSE
  ELSE IF a = <<>> THEN TRUE
  ELSE IF Head(a) = Head(b) THEN StrLess(Tail(a), Tail(b))
  ELSE Ord(Head(a)) < Ord(Head(b))

\* line 79: sorted(module_list)
RECURSIVE Sorted(_)
Sorted(lst) ==
  IF lst = <<>> THEN <<>>
  ELSE LET rest == Sorted(Tail(lst))
           before == SelectSeq(rest, LAMBDA m : StrLess(m, Head(lst)))
           after == SelectSeq(rest, LAMBDA m : ~StrLess(m, Head(lst)))
       IN  before \o <<Head(lst)>> \o after

\* lines 82-86: the main module first; list.remove takes out its first
\* occurrence when it was in module_list
MainFirst(sorted_modules, lst, main) ==
  IF ~InList(lst, main) THEN <<main>> \o sorted_modules
  ELSE LET k == CHOOSE k \in 1..Len(sorted_modules) :
                  /\ sorted_modules[k] = main
                  /\ \A j \in 1..(k - 1) : sorted_modules[j] # main
       IN  <<main>> \o SubSeq(sorted_modules, 1, k - 1)
                    \o SubSeq(sorted_modules, k + 1, Len(sorted_modules))

\* line 90: level = min(len(parts) - 1, 3)
HeadingLevel(module) ==
  LET n == Len(SplitOn(module, ".")) - 1 IN IF n < 3 THEN n ELSE 3

\* lines 89-96: the lines of the directive block of one module
DirectiveBlock(module, main, containers) ==
  << <<":",":",":"," ">> \o module,
     <<" "," "," "," ","o","p","t","i","o","n","s",":">>,
     <<" "," "," "," "," "," ","h","e","a","d","i","n","g","_","l","e","v","e","l",":"," ">> \o <<CASE HeadingLevel(module) = 0 -> "0"
                                      [] HeadingLevel(module) = 1 -> "1"
                                      [] HeadingLevel(module) = 2 -> "2"
                                      [] OTHER -> "3">> >>
  \o (IF module = main \/ module \in containers
      THEN << <<" "," "," "," "," "," ","m","e","m","b","e","r","s",":"," ","f","a","l","s","e">> >> ELSE <<>>)

\* lines 88-98: the text written to <category>.md
RECURSIVE ListingText(_, _, _)
ListingText(sorted_modules, main, containers) ==
  IF sorted_modules = <<>> THEN <<"\n">>
  ELSE JoinLines(DirectiveBlock(Head(sorted_modules), main, containers))
       \o (IF Len(sorted_modules) = 1 THEN <<>> ELSE <<"\n">>)
       \o ListingText(Tail(sorted_modules), main, containers)

\* the orders in which the elements of a set can be iterated
Orders(S) ==
  {l \in [1..Cardinality(S) -> S] : \A j, k \in 1..Cardinality(S) : j # k => l[j] # l[k]}

\* lines 30-36: git clone into temp_python_sdk.  A clone that fails leaves
\* nothing, the directory without src/strands, or the directory with it.
Clone ==
  /\ pc = "gen_start"
  /\ \E left \in {"none", "partial", "full"} :
       CASE clone = "ok" ->
              /\ left = "full"
              /\ scratch' = "full"
              /\ pc' = "discover"
              /\ exc' = exc
         [] clone = "CalledProcessError" ->
              /\ scratch' = IF left = "full" THEN "none" ELSE left
              /\ pc' = "returned"
              /\ exc' = exc
         [] OTHER ->
              /\ scratch' = left
              /\ pc' = "raised"
              /\ exc' = clone
  /\ UNCHANGED << valvars, clone, candidates, item, modules, categories, cat,
                  listings, module_list, main_module, container_modules, returned >>

\* lines 42-54: one iteration of the loop over sdk_path.rglob('*.py')
ImportCandidate ==
  /\ pc = "discover"
  /\ item <= Len(candidates)
  /\ LET c == candidates[item]
     IN  IF IsPrivate(c.path) \/ c.imp = "ImportError"
         THEN /\ item' = item + 1
              /\ UNCHANGED << pc, exc, modules >>
         ELSE IF c.imp = "ok"
         THEN /\ modules' = Append(modules, ModuleOf(c.path))
              /\ item' = item + 1
              /\ UNCHANGED << pc, exc >>
         ELSE /\ pc' = "raised"
              /\ exc' = c.imp
              /\ UNCHANGED << item, modules >>
  /\ UNCHANGED << valvars, scratch, clone, candidates, categories, cat, listings,
                  module_list, main_module, container_modules, returned >>

\* lines 58-65: the loop over modules, after the last file of rglob
GroupModules ==
  /\ pc = "discover"
  /\ item > Len(candidates)
  /\ categories' = Categorize(modules, <<>>)
  /\ pc' = "generate"
  /\ UNCHANGED << exc, valvars, scratch, clone, candidates, item, modules, cat,
                  listings, module_list, main_module, container_modules, returned >>

\* lines 68-98: one iteration of the loop over categories.items().  Line 76
\* extends module_list with what _find_container_modules returned:
\* list.extend(None) raises TypeError.
GenerateCategory ==
  /\ pc = "generate"
  /\ cat <= Len(categories)
  /\ LET category == categories[cat][1]
         lst == categories[cat][2]
         main == MainPrefix \o category
         r == FindContainerModules(lst, main)
     IN  /\ module_list' = lst
         /\ main_module' = main
         /\ container_modules' = r.container_modules
         /\ returned' = r.returned
         /\ IF r.returned.kind = "None"
            THEN /\ pc' = "raised"
                 /\ exc' = "TypeError"
                 /\ UNCHANGED << categories, cat, listings >>
            ELSE \E added \in Orders(r.returned.val) :
                   LET extended == lst \o added
                       sorted_modules == MainFirst(Sorted(extended), extended, main)
                   IN  /\ categories' = [categories EXCEPT ![cat] = <<category, extended>>]
                       /\ listings' = DictSet(listings, category \o <<".", "m", "d">>,
                                              ListingText(sorted_modules, main,
                                                          r.returned.val))
                       /\ cat' = cat + 1
                       /\ UNCHANGED << pc, exc >>
  /\ UNCHANGED << valvars, scratch, clone, candidates, item, modules >>

\* lines 100-101: after the last category, remove the clone
CleanUp ==
  /\ pc = "generate"
  /\ cat > Len(categories)
  /\ scratch' = "none"
  /\ pc' = "gen_done"
  /\ UNCHANGED << exc, valvars, clone, candidates, item, modules, categories, cat,
                  listings, module_list, main_module, container_modules, returned >>

(***************************************************************************)
(* Inputs of the generator specification: how the clone ends, the files    *)
(* rglob yields (in any order) and what importing each module does.        *)
(***************************************************************************)
GenFile ==
  [ read |-> SdkParent \o <<"/","s","t","r","a","n","d","s","/","t","o","o","l","s","/","f","s","/","r","e","a","d",".","p","y">>,
    write |-> SdkParent \o <<"/","s","t","r","a","n","d","s","/","t","o","o","l","s","/","f","s","/","w","r","i","t","e",".","p","y">>,
    net |-> SdkParent \o <<"/","s","t","r","a","n","d","s","/","t","o","o","l","s","/","n","e","t",".","p","y">>,
    raw |-> SdkParent \o <<"/","s","t","r","a","n","d","s","/","t","o","o","l","s","/","f","s","/","i","o","/","r","a","w",".","p","y">>,
    agent |-> SdkParent \o <<"/","s","t","r","a","n","d","s","/","a","g","e","n","t",".","p","y">>,
    init |-> SdkParent \o <<"/","s","t","r","a","n","d","s","/","t","o","o","l","s","/","_","_","i","n","i","t","_","_",".","p","y">> ]

\* the lists of n distinct files, each with what importlib.import_module
\* does with its module: it returns, or raises ImportError, or raises
\* something that is no ImportError
CandidateLists(n) ==
  {[k \in 1..n |-> [path |-> l[k], imp |-> IF IsPrivate(l[k]) THEN "ok" ELSE o[k]]] :
     l \in {x \in [1..n -> {GenFile[f] : f \in DOMAIN GenFile}] :
              \A j, k \in 1..n : j # k => x[j] # x[k]},
     o \in [1..n -> {"ok", "ImportError", "SyntaxError"}]}

InitGen ==
  /\ pc = "gen_start"
  /\ exc = "none"
  /\ \/ clone = "ok" /\ \E n \in 0..MaxCandidates : candidates \in CandidateLists(n)
     \/ clone \in {"CalledProcessError", "FileNotFoundError"} /\ candidates = <<>>
  /\ scratch = "none"
  /\ item = 1
  /\ modules = <<>>
  /\ categories = <<>>
  /\ cat = 1
  /\ listings = <<>>
  /\ module_list = <<>>
  /\ main_module = <<>>
  /\ container_modules = {}
  /\ returned = NoneValue
  /\ ValIdle

NextGen == Clone \/ ImportCandidate \/ GroupModules \/ GenerateCategory \/ CleanUp

SpecGen == InitGen /\ [][NextGen]_vars

(***************************************************************************)
(* Vocabulary of the properties.  These definitions describe the inputs    *)
(* (the tree, the files) without using the functions under check.          *)
(***************************************************************************)
Leaves == NavLeaves(nav)

\* the k-th leaf occurrence is the last one of its path
LastOccurrence(k) ==
  \A j \in (k + 1)..Len(Leaves) : Leaves[j].path # Leaves[k].path

\* the title a bare leaf is expected to get, as Python computes it:
\* Path(p).stem.replace('-', ' ').replace('_', ' ').title()
BareTitle(p) ==
  CASE p = PathFoo  -> <<"F","o","o"," ","B","a","r"," ","B","a","z">>
    [] p = PathApi  -> <<"A","p","i"," ","R","e","f">>
    [] p = PathA    -> <<"A">>
    [] p = PathC    -> <<"C">>
    [] p = PathTxt  -> <<"B">>
    [] p = PathHttp -> <<"H","t","t","p"," ","A","p","i">>
    [] p = PathUrl  -> <<"X">>

\* the title the navigation gives a leaf occurrence
OccTitle(o) == IF o.labelled THEN o.label ELSE BareTitle(o.path)

\* the kind of the file a path resolves to: the root's when the root has
\* one, else the docs folder's, "Absent" when neither has
ResolvedKind(p) ==
  IF <<"root", p>> \in DOMAIN fs /\ fs[<<"root", p>>] # "Absent"
  THEN fs[<<"root", p>>]
  ELSE IF <<"docs", p>> \in DOMAIN fs THEN fs[<<"docs", p>>]
  ELSE "Absent"

\* what the run is expected to do with a path whose expected title is t,
\* read off the kind of the file
Verdict(p, t) ==
  IF IsSkippedLink(p) \/ ~IsMarkdown(p) THEN "skip"
  ELSE CASE ResolvedKind(p) = "Absent"               -> "missing"
         [] ResolvedKind(p) \in {"NoFm", "NoTitle"}  -> "no_title"
         [] ResolvedKind(p) = "Guide"                ->
              IF t = LabelGuide THEN "ok" ELSE "wrong"
         [] ResolvedKind(p) = "Unreadable"           -> "read_error"
         [] ResolvedKind(p) = "Bad"                  -> "parse_error"
         [] OTHER                                    -> "type_error"

\* the verdict on the k-th entry of the title mapping
VerdictAt(k) == Verdict(file_titles[k][1], file_titles[k][2])

AbortVerdicts == {"read_error", "parse_error", "type_error"}

InMissing(p) == \E n \in 1..Len(missing_files) : missing_files[n] = p
InNoTitle(p) ==
  \E n \in 1..Len(files_without_titles) :
     files_without_titles[n] \in {p, DocsPrefix \o p}
InWrong(p) ==
  \E n \in 1..Len(files_with_wrong_titles) :
     files_with_wrong_titles[n].file \in {p, DocsPrefix \o p}

AnyFinding ==
  missing_files # <<>> \/ files_without_titles # <<>> \/ files_with_wrong_titles # <<>>

\* the run went through the whole mapping and ended, by the report or silently
Completed == pc = "passed" \/ (pc = "raised" /\ exc = ExcReport)

\* the positions of the mapping with the given verdict among the first n
PositionsWith(v, n) == {k \in 1..n : VerdictAt(k) = v}

(***************************************************************************)
(* Claims about the validator (specification Spec).                        *)
(***************************************************************************)

\* C1: whenever the run completes without raising, every markdown leaf path
\* of the navigation that is not an absolute URL exists (under the root or
\* under docs/) and, when it was reached under a label, the file it resolves
\* to carries a frontmatter title equal to that label.
C1_SoundWhenPassed ==
  pc = "passed" =>
    \A k \in 1..Len(Leaves) :
       LET o == Leaves[k]
       IN  (IsMarkdown(o.path) /\ ~IsUrl(o.path)) =>
             /\ ResolvedKind(o.path) # "Absent"
             /\ o.labelled => (ResolvedKind(o.path) = "Guide" /\ o.label = LabelGuide)

\* C2 as stated: the run raises if and only if one of the three finding lists
\* is non-empty (and succeeds when all three are empty).
C2_RaisesIffFinding ==
  (config = "ok" /\ pc \in {"passed", "raised"}) => (pc = "raised" <=> AnyFinding)

\* C2 amended: a run that reaches the end of the loop raises the aggregated
\* report if and only if one of the three lists is non-empty, and the report
\* holds the findings of every path of the mapping; a finding never ends the
\* traversal: the run ends inside the loop only on a file that cannot be read
\* or whose frontmatter cannot be used, and before the loop only when
\* mkdocs.yml cannot be loaded.
C2_AggregatedReport ==
  /\ pc = "passed" =>
       /\ ~AnyFinding
       /\ errors = <<>>
       /\ idx = Len(file_titles) + 1
  /\ exc = ExcReport =>
       /\ pc = "raised"
       /\ AnyFinding
       /\ idx = Len(file_titles) + 1
       /\ errors # <<>>
       /\ \A n \in 1..Len(errors) :
            errors[n].items =
              CASE errors[n].section = "missing"  -> missing_files
                [] errors[n].section = "no_title" -> files_without_titles
                [] OTHER                          -> files_with_wrong_titles
       /\ missing_files # <<>> => \E n \in 1..Len(errors) : errors[n].section = "missing"
       /\ files_without_titles # <<>> =>
            \E n \in 1..Len(errors) : errors[n].section = "no_title"
       /\ files_with_wrong_titles # <<>> =>
            \E n \in 1..Len(errors) : errors[n].section = "wrong"
  /\ (pc \in {"passed", "raised"} /\ config = "ok" /\ idx > Len(file_titles)) =>
       (pc = "raised" <=> AnyFinding)
  /\ (pc = "raised" /\ exc # ExcReport) =>
       IF config = "ok"
       THEN idx <= Len(file_titles) /\ VerdictAt(idx) \in AbortVerdicts
       ELSE exc \in {"FileNotFoundError", "YAMLError", "KeyError"}
  /\ pc \in {"loop", "passed", "raised"} /\ config = "ok" =>
       /\ Len(missing_files) = Cardinality(PositionsWith("missing", idx - 1))
       /\ Len(files_without_titles) = Cardinality(PositionsWith("no_title", idx - 1))
       /\ Len(files_with_wrong_titles) = Cardinality(PositionsWith("wrong", idx - 1))
       /\ \A k \in 1..(idx - 1) :
            /\ VerdictAt(k) = "missing" => InMissing(file_titles[k][1])
            /\ VerdictAt(k) = "no_title" => InNoTitle(file_titles[k][1])
            /\ VerdictAt(k) = "wrong" => InWrong(file_titles[k][1])

\* C2 witness: two paths, a finding on each; the first did not end the
\* traversal and the report holds both.
C2_Witness ==
  /\ exc = ExcReport
  /\ Len(file_titles) = 2
  /\ VerdictAt(1) = "missing"
  /\ VerdictAt(2) = "no_title"
  /\ Len(errors) = 2

\* C3: at the end of a completed run every markdown path of the title
\* mapping that is not an absolute URL is in exactly one class: missing,
\* no-title, wrong-title, or ok (the file it resolves to carries the expected
\* title and the path is in no list).
C3_ExactlyOneClass ==
  Completed =>
    \A k \in 1..Len(file_titles) :
       LET p == file_titles[k][1]
           ok == /\ ResolvedKind(p) = "Guide"
                 /\ file_titles[k][2] = LabelGuide
                 /\ ~InMissing(p) /\ ~InNoTitle(p) /\ ~InWrong(p)
       IN  (IsMarkdown(p) /\ ~IsUrl(p)) =>
             Cardinality({c \in {"missing", "no_title", "wrong", "ok"} :
                            CASE c = "missing"  -> InMissing(p)
                              [] c = "no_title" -> InNoTitle(p)
                              [] c = "wrong"    -> InWrong(p)
                              [] OTHER          -> ok}) = 1

\* C4: a document the traversal reaches whose frontmatter cannot be parsed
\* aborts the run at once with the parse error: the run never goes past such
\* a document, the document is not in the no-title list, nothing more is
\* examined and no aggregated report is built.
C4_ParseFailureAborts ==
  /\ config = "ok" /\ pc # "start" =>
       \A k \in 1..(idx - 1) : VerdictAt(k) # "parse_error"
  /\ (pc = "loop" /\ idx <= Len(file_titles)) => exc = "none"
  /\ exc = ExcParse =>
       /\ pc = "raised"
       /\ idx <= Len(file_titles)
       /\ VerdictAt(idx) = "parse_error"
       /\ ~InNoTitle(file_titles[idx][1])
       /\ errors = <<>>
       /\ ~ENABLED Next
  /\ (pc = "raised" /\ config = "ok" /\ idx <= Len(file_titles)
        /\ VerdictAt(idx) = "parse_error") => exc = ExcParse

\* C4 witness: the first of two paths has a malformed frontmatter; the run
\* has aborted on it and the second path, a missing file, was never recorded.
C4_Witness ==
  /\ exc = ExcParse
  /\ Len(file_titles) = 2
  /\ idx = 1
  /\ VerdictAt(2) = "missing"
  /\ missing_files = <<>>

C9_DocsTitleNoErrors ==
  \A k \in 1..Len(Leaves) :
     LET o == Leaves[k]
     IN  (/\ config = "ok"
          /\ o.labelled /\ o.label = LabelGuide
          /\ IsMarkdown(o.path) /\ ~IsUrl(o.path)
          /\ fs[<<"docs", o.path>>] = "Guide")
         => /\ ~InMissing(o.path) /\ ~InNoTitle(o.path) /\ ~InWrong(o.path)
            /\ ~(pc = "raised" /\ exc # ExcReport /\ file_titles[idx][1] = o.path)

\* C9 amended: if {L: p} is the last occurrence of the markdown path p in the
\* navigation, no file p exists beside mkdocs.yml, and docs/p exists with
\* frontmatter title L, validation reports no error for p.
C9_DocsOnlyTitleNoErrors ==
  \A k \in 1..Len(Leaves) :
     LET o == Leaves[k]
     IN  (/\ config = "ok"
          /\ o.labelled /\ o.label = LabelGuide
          /\ LastOccurrence(k)
          /\ IsMarkdown(o.path) /\ ~IsUrl(o.path)
          /\ fs[<<"root", o.path>>] = "Absent"
          /\ fs[<<"docs", o.path>>] = "Guide")
         => /\ ~InMissing(o.path) /\ ~InNoTitle(o.path) /\ ~InWrong(o.path)
            /\ ~(pc = "raised" /\ exc # ExcReport /\ file_titles[idx][1] = o.path)

\* C9 witness: {"Guide": "a.md"}, the file only under docs/ with title Guide,
\* and the run has passed.
C9_Witness ==
  /\ pc = "passed"
  /\ nav = NavList(<< NavDict(<< <<LabelGuide, NavStr(PathA)>> >>) >>)
  /\ fs[<<"root", PathA>>] = "Absent"
  /\ fs[<<"docs", PathA>>] = "Guide"

\* C10: at the end of a completed run, every referenced markdown file (its
\* path not an absolute URL) that exists but has no frontmatter, or whose
\* frontmatter has no title attribute, is in the list of files without
\* frontmatter titles, and the run has raised.
C10_NoTitleReported ==
  Completed =>
    \A k \in 1..Len(Leaves) :
       LET p == Leaves[k].path
       IN  (IsMarkdown(p) /\ ~IsUrl(p) /\ ResolvedKind(p) \in {"NoFm", "NoTitle"})
           => (InNoTitle(p) /\ pc = "raised")

\* C11: at the end of a completed run, every referenced markdown file (its
\* path not an absolute URL) whose frontmatter title differs from the title
\* expected for it is in the list of wrong titles, in an entry that carries
\* the expected title of the navigation and the actual title of the file,
\* and the run has raised.
C11_WrongTitleReported ==
  Completed =>
    \A k \in 1..Len(file_titles) :
       LET p == file_titles[k][1]
           expected_title == file_titles[k][2]
       IN  (/\ IsMarkdown(p) /\ ~IsUrl(p)
            /\ ResolvedKind(p) = "Guide"
            /\ expected_title # LabelGuide)
           => /\ \E n \in 1..Len(files_with_wrong_titles) :
                   /\ files_with_wrong_titles[n].file \in {p, DocsPrefix \o p}
                   /\ files_with_wrong_titles[n].expected = expected_title
                   /\ files_with_wrong_titles[n].actual = LabelGuide
              /\ pc = "raised"


\* C26: a path that reaches the resolution of lines 98-102 and has a markdown
\* suffix is checked on the file under the root when that file exists, also
\* when docs/ holds a file of the same name; on the file under docs/ when
\* only that one exists; and it is reported missing exactly when neither
\* exists.
C26_RootFirstThenDocs ==
  \A k \in 1..Len(file_titles) :
     LET p == file_titles[k][1]
         t == file_titles[k][2]
         NoTitleAt(f) == \E n \in 1..Len(files_without_titles) : files_without_titles[n] = f
         WrongAt(f) == \E n \in 1..Len(files_with_wrong_titles) :
                          files_with_wrong_titles[n].file = f
         CheckedAs(f, kind) ==
           /\ NoTitleAt(f) <=> kind \in {"NoFm", "NoTitle"}
           /\ WrongAt(f) <=> (kind = "Guide" /\ t # LabelGuide)
     IN  (k < idx /\ ~IsSkippedLink(p) /\ IsMarkdown(p)) =>
           /\ InMissing(p) <=>
                (fs[<<"root", p>>] = "Absent" /\ fs[<<"docs", p>>] = "Absent")
           /\ fs[<<"root", p>>] # "Absent" =>
                /\ CheckedAs(p, fs[<<"root", p>>])
                /\ ~NoTitleAt(DocsPrefix \o p) /\ ~WrongAt(DocsPrefix \o p)
           /\ fs[<<"root", p>>] = "Absent" =>
                /\ CheckedAs(DocsPrefix \o p, fs[<<"docs", p>>])
                /\ ~NoTitleAt(p) /\ ~WrongAt(p)

\* C26 witness: a.md exists under the root without frontmatter and under
\* docs/ with the right title; the root's file was checked and reported.
C26_Witness ==
  /\ pc = "loop"
  /\ idx = 2
  /\ file_titles = << <<PathA, LabelGuide>> >>
  /\ fs[<<"root", PathA>>] = "NoFm"
  /\ fs[<<"docs", PathA>>] = "Guide"
  /\ files_without_titles = << PathA >>

\* C27: when the run went through the whole mapping, every path with a
\* markdown suffix that is no absolute URL was resolved and classified: it is
\* in the missing list when it exists under neither root, in the no-title list
\* when its file has no frontmatter or no title, in the wrong-title list when
\* its file's title differs from the expected one.
C27_OnlyUrlsExcluded ==
  Completed =>
    \A k \in 1..Len(file_titles) :
       LET p == file_titles[k][1]
           t == file_titles[k][2]
       IN  (~IsUrl(p) /\ IsMarkdown(p)) =>
             /\ ResolvedKind(p) = "Absent" => InMissing(p)
             /\ ResolvedKind(p) \in {"NoFm", "NoTitle"} => InNoTitle(p)
             /\ (ResolvedKind(p) = "Guide" /\ t # LabelGuide) => InWrong(p)

\* C28: a path whose resolved file has a suffix other than .md and .markdown
\* is in none of the three finding lists, also when it exists under neither
\* root, and the run never aborts on it.
C28_NonMarkdownSkipped ==
  \A k \in 1..Len(file_titles) :
     LET p == file_titles[k][1]
     IN  Lower(PathSuffix(p)) \notin {SuffixMd, SuffixMarkdown} =>
           /\ ~InMissing(p)
           /\ ~InNoTitle(p)
           /\ ~InWrong(p)
           /\ (pc = "raised" /\ exc # ExcReport) => idx # k

\* C28 witness: the navigation holds b.txt alone, which exists under neither
\* root; the run went past it and ended without a finding.
C28_Witness ==
  /\ pc = "passed"
  /\ file_titles = << <<PathTxt, <<"B">> >> >>
  /\ fs[<<"root", PathTxt>>] = "Absent"
  /\ fs[<<"docs", PathTxt>>] = "Absent"
  /\ idx = 2
  /\ ~AnyFinding

(***************************************************************************)
(* Claims about extract_nav_titles (specification SpecNav).                *)
(***************************************************************************)

\* C6 as stated: every bare string leaf is mapped to its derived title
\* (stem, '-' and '_' to spaces, title case).
C6_BareLeafDerived ==
  pc = "nav_done" =>
    \A k \in 1..Len(Leaves) :
       ~Leaves[k].labelled =>
         /\ DictHas(file_titles, Leaves[k].path)
         /\ DictGet(file_titles, Leaves[k].path) = BareTitle(Leaves[k].path)

\* C6 amended: every bare string leaf that is the last occurrence of its
\* path in the tree is mapped to its derived title (stem, '-' and '_' to
\* spaces, title case); "foo-bar_baz.md" alone gives "Foo Bar Baz".
C6_LastBareLeafDerived ==
  pc = "nav_done" =>
    /\ \A k \in 1..Len(Leaves) :
         (~Leaves[k].labelled /\ LastOccurrence(k)) =>
           /\ DictHas(file_titles, Leaves[k].path)
           /\ DictGet(file_titles, Leaves[k].path) = BareTitle(Leaves[k].path)
    /\ nav = NavStr(PathFoo) =>
         file_titles = << <<PathFoo, <<"F","o","o"," ","B","a","r"," ","B","a","z">> >> >>

\* C6 witness: a list holding the bare leaf "foo-bar_baz.md", mapped to
\* "Foo Bar Baz".
C6_Witness ==
  /\ pc = "nav_done"
  /\ nav = NavList(<< NavStr(PathFoo) >>)
  /\ file_titles = << <<PathFoo, <<"F","o","o"," ","B","a","r"," ","B","a","z">> >> >>

\* C7: the title mapping has exactly the leaf paths of the tree as keys and
\* holds, for each path, the title of the occurrence that comes last in the
\* depth-first document order, whatever the nesting of the occurrences.
C7_LastWriteWins ==
  pc = "nav_done" =>
    /\ DictKeys(file_titles) = NavPaths(nav)
    /\ \A j, k \in 1..Len(file_titles) : j # k => file_titles[j][1] # file_titles[k][1]
    /\ \A k \in 1..Len(Leaves) :
         LastOccurrence(k) => DictGet(file_titles, Leaves[k].path) = OccTitle(Leaves[k])

\* C7 witness: a path declared first inside a nested group without a label,
\* then again at the top under another title; the later one is in the mapping.
C7_Witness ==
  /\ pc = "nav_done"
  /\ nav = NavDict(<< <<LabelGuide, NavList(<< NavStr(PathA) >>)>>,
                      <<LabelIntro, NavStr(PathA)>> >>)
  /\ file_titles = << <<PathA, LabelIntro>> >>

\* the labels of the mapping entries whose value is a nested structure
\* (the entries that take the branch of lines 29-31)
RECURSIVE GroupLabels(_)
GroupLabels(node) ==
  CASE node.tag = "list" ->
         UNION {GroupLabels(node.val[k]) : k \in 1..Len(node.val)}
    [] node.tag = "dict" ->
         UNION {IF node.val[k][2].tag \in {"list", "dict"}
                THEN {node.val[k][1]} \cup GroupLabels(node.val[k][2])
                ELSE {} : k \in 1..Len(node.val)}
    [] OTHER -> {}

\* C22: every labelled leaf {label: path} whose path occurs once in the tree
\* has its path mapped to exactly that label, at whatever depth it sits.
C22_LabelledLeafKeepsLabel ==
  pc = "nav_done" =>
    \A k \in 1..Len(Leaves) :
       (/\ Leaves[k].labelled
        /\ \A j \in 1..Len(Leaves) : j # k => Leaves[j].path # Leaves[k].path) =>
         /\ DictHas(file_titles, Leaves[k].path)
         /\ DictGet(file_titles, Leaves[k].path) = Leaves[k].label

\* C22 witness: a labelled leaf two levels down, under a group with another
\* label, mapped to its own label.
C22_Witness ==
  /\ pc = "nav_done"
  /\ nav = NavList(<< NavDict(<< <<LabelIntro, NavList(<< NavDict(<< <<LabelGuide, NavStr(PathApi)>> >>) >>)>> >>) >>)
  /\ file_titles = << <<PathApi, LabelGuide>> >>

\* C23: the label of a mapping entry whose value is a nested structure is
\* recorded for no path: every recorded title is the one a leaf occurrence of
\* that very path determines, a group label that is no leaf's label is the
\* title of nothing, a one-entry group contributes what its nested structure
\* contributes, and a sequence contributes the merge of what its elements
\* contribute, a later element winning.
C23_GroupLabelDiscarded ==
  pc = "nav_done" =>
    /\ \A n \in 1..Len(file_titles) :
         \E k \in 1..Len(Leaves) :
            /\ Leaves[k].path = file_titles[n][1]
            /\ OccTitle(Leaves[k]) = file_titles[n][2]
    /\ \A l \in GroupLabels(nav) :
         (\A k \in 1..Len(Leaves) : ~(Leaves[k].labelled /\ Leaves[k].label = l)) =>
           \A n \in 1..Len(file_titles) : file_titles[n][2] # l
    /\ (nav.tag = "dict" /\ Len(nav.val) = 1 /\ nav.val[1][2].tag \in {"list", "dict"}) =>
         file_titles = ExtractNavTitles(nav.val[1][2])
    /\ nav.tag = "list" =>
         /\ DictKeys(file_titles) =
              UNION {DictKeys(ExtractNavTitles(nav.val[i])) : i \in 1..Len(nav.val)}
         /\ \A i \in 1..Len(nav.val) :
              \A p \in DictKeys(ExtractNavTitles(nav.val[i])) :
                 (\A j \in (i + 1)..Len(nav.val) : ~DictHas(ExtractNavTitles(nav.val[j]), p)) =>
                   DictGet(file_titles, p) = DictGet(ExtractNavTitles(nav.val[i]), p)

\* C23 witness: a group labelled "Intro" holding a bare leaf and a leaf
\* labelled "Guide"; "Intro" is the title of neither.
C23_Witness ==
  /\ pc = "nav_done"
  /\ nav = NavDict(<< <<LabelIntro, NavList(<< NavStr(PathA),
                                               NavDict(<< <<LabelGuide, NavStr(PathApi)>> >>) >>)>> >>)
  /\ file_titles = << <<PathA, <<"A">> >>, <<PathApi, LabelGuide>> >>

(***************************************************************************)
(* Claims about extract_existing_frontmatter (specification SpecFm).       *)
(***************************************************************************)

\* the text opens with a delimited block: its first line, stripped, is the
\* delimiter and so is a later line, stripped
OpensWithBlock(text) ==
  LET lines == SplitLines(text)
  IN  /\ Strip(lines[1]) = Delim
      /\ \E k \in 2..Len(lines) : Strip(lines[k]) = Delim

\* C8 as stated: applying the function again to the body it returned yields
\* an empty frontmatter and that same body.
C8_Idempotent ==
  pc = "fm_twice" => fm_again = << <<>>, fm_out[2] >>

\* C8 amended: applying the function again to the body it returned yields an
\* empty frontmatter and that same body exactly when the body does not itself
\* open with a delimited block; when it does, the second application removes
\* that block as well and returns a shorter body.
C8_IdempotentUnlessBlock ==
  pc = "fm_twice" =>
    /\ ~OpensWithBlock(fm_out[2]) => fm_again = << <<>>, fm_out[2] >>
    /\ OpensWithBlock(fm_out[2]) => Len(fm_again[2]) < Len(fm_out[2])

\* C8 witness: a document with a non-empty frontmatter whose body the second
\* application leaves alone.
C8_Witness ==
  /\ pc = "fm_twice"
  /\ fm_out[1] # <<>>
  /\ fm_out[2] # <<>>
  /\ fm_again = << <<>>, fm_out[2] >>

\* C24: unless the first line of the document that is not blank is the
\* delimiter '---' (surrounding whitespace aside), the function returns an
\* empty frontmatter and the whole input as the remaining body.
C24_EmptyUnlessDelimiterFirst ==
  pc = "fm_once" =>
    LET lines == SplitLines(content)
    IN  (~\E k \in 1..Len(lines) :
             /\ Strip(lines[k]) = Delim
             /\ \A j \in 1..(k - 1) : Strip(lines[j]) = <<>>) =>
          fm_out = << <<>>, content >>

\* C24 witness: a document whose first line is '----', which starts with the
\* delimiter without being it, followed by a title line and a '---' line: the
\* function returned nothing and the whole text.
C24_Witness ==
  /\ pc = "fm_once"
  /\ content = JoinLines(<< LineDashes, LineTitleGuide, Delim >>)
  /\ fm_out = << <<>>, content >>

\* C25: when the first line of the document is the delimiter and no later
\* line is one, the function returns an empty frontmatter and the input
\* unchanged as the body.
C25_UnclosedIsNoFrontmatter ==
  pc = "fm_once" =>
    LET lines == SplitLines(content)
    IN  (/\ Strip(lines[1]) = Delim
         /\ \A k \in 2..Len(lines) : Strip(lines[k]) # Delim) =>
          fm_out = << <<>>, content >>

\* C25 witness: '---', a title line and a body line, never closed.
C25_Witness ==
  /\ pc = "fm_once"
  /\ content = JoinLines(<< Delim, LineTitleGuide, LineBody >>)
  /\ fm_out = << <<>>, content >>

\* C29: a frontmatter is returned only when the first line of the text,
\* stripped, is the delimiter; a document with one or more blank lines before
\* a well-formed '---' ... '---' block yields an empty frontmatter and the
\* input unchanged, and lines 121-131 of the validation make of that result a
\* file without title.
C29_BlankLineHidesBlock ==
  pc = "fm_once" =>
    LET lines == SplitLines(content)
    IN  /\ fm_out[1] # <<>> => Strip(lines[1]) = Delim
        /\ (\E k \in 2..Len(lines) :
               /\ \A j \in 1..(k - 1) : Strip(lines[j]) = <<>>
               /\ OpensWithBlock(JoinLines(SubSeq(lines, k, Len(lines))))) =>
             /\ fm_out = << <<>>, content >>
             /\ CheckLoaded(fm_out[1], SafeLoad(fm_out[1]), LabelGuide).out = "no_title"

\* C29 witness: a blank line, then '---', 'title: Guide', '---'.
C29_Witness ==
  /\ pc = "fm_once"
  /\ content = JoinLines(<< LineBlank, Delim, LineTitleGuide, Delim >>)
  /\ fm_out = << <<>>, content >>

\* C30: when the document opens with a delimited block, the closing delimiter
\* is the first line after the opening one whose stripped form is '---': the
\* frontmatter returned is the lines strictly between the two, none of them a
\* delimiter line, and the body returned is the lines after the closing one.
C30_BetweenFirstTwoDelimiters ==
  pc = "fm_once" =>
    LET lines == SplitLines(content)
    IN  OpensWithBlock(content) =>
          \E k \in 2..Len(lines) :
             /\ Strip(lines[k]) = Delim
             /\ \A j \in 2..(k - 1) : Strip(lines[j]) # Delim
             /\ fm_out[1] = JoinLines(SubSeq(lines, 2, k - 1))
             /\ fm_out[2] = JoinLines(SubSeq(lines, k + 1, Len(lines)))
             /\ \A j \in 1..Len(SplitLines(fm_out[1])) :
                  Strip(SplitLines(fm_out[1])[j]) # Delim

\* C30 witness: '---', 'title: Guide', '---', '---': the frontmatter is the
\* title line and the body is the second closing line.
C30_Witness ==
  /\ pc = "fm_once"
  /\ content = JoinLines(<< Delim, LineTitleGuide, Delim, Delim >>)
  /\ fm_out = << LineTitleGuide, Delim >>

(***************************************************************************)
(* Claims about _find_container_modules (specification SpecContainers).    *)
(* The vocabulary reads a module name as its sequence of dotted segments.  *)
(***************************************************************************)
Segments(m) == SplitOn(m, ".")

\* module m lies below prefix c: c's segments and at least one more
IsUnder(m, c) ==
  /\ Len(Segments(m)) > Len(Segments(c))
  /\ SubSeq(Segments(m), 1, Len(Segments(c))) = Segments(c)

\* the positions of module_list whose module lies below c
Descendants(c) == {n \in 1..Len(module_list) : IsUnder(module_list[n], c)}

\* the direct children of c that have a listed module at or below them
ChildrenOf(c) ==
  {SubSeq(Segments(module_list[n]), 1, Len(Segments(c)) + 1) : n \in Descendants(c)}

\* the names with at least 3 segments that are not listed, are not the
\* category root and have two listed modules or more below them
ExpectedContainers ==
  {c \in NamesAB \cup NamesPkg :
     /\ Len(Segments(c)) >= 3
     /\ ~InList(module_list, c)
     /\ c # main_module
     /\ Cardinality(Descendants(c)) >= 2}

\* C13: the call returns to its caller the inferred containers: exactly the
\* prefixes of at least 3 segments that are not listed, are not the category
\* root and have at least two listed modules below them; for pkg.tools.fs.read,
\* pkg.tools.fs.write and pkg.tools.net it returns pkg.tools.fs and nothing
\* derived from pkg.tools.net.
C13_ContainersReturned ==
  pc = "fc_done" =>
    /\ returned.kind # "None"
    /\ returned.val = ExpectedContainers
    /\ module_list = <<Name.pkg_fs_read, Name.pkg_fs_write, Name.pkg_net>> => returned.val = {Name.pkg_fs}

\* C18 as stated: a prefix is added as a container only when it has more
\* than one distinct direct child among the listed modules.
C18_DistinctChildren ==
  pc = "fc_done" =>
    \A c \in container_modules : Cardinality(ChildrenOf(c)) > 1

\* C18 amended: a prefix is added to the set the function builds exactly when
\* it has at least 3 segments, is not listed, is not the category root and
\* at least two listed modules lie below it at any depth; with only
\* a.b.c.d.x and a.b.c.d.y listed, a.b.c and a.b.c.d are both added.
C18_TwoDescendants ==
  pc = "fc_done" =>
    /\ container_modules = ExpectedContainers
    /\ module_list = <<Name.abcdx, Name.abcdy>> => container_modules = {Name.abc, Name.abcd}

\* C18 witness: only a.b.c.d.x and a.b.c.d.y are listed and a.b.c, whose one
\* direct child is a.b.c.d, is in the set the function built.
C18_Witness ==
  /\ pc = "fc_done"
  /\ module_list = <<Name.abcdx, Name.abcdy>>
  /\ Name.abc \in container_modules
  /\ Cardinality(ChildrenOf(Name.abc)) = 1

(***************************************************************************)
(* Claims about on_pre_build (specification SpecGen).                      *)
(***************************************************************************)
\* on_pre_build has ended: after line 101, by the return of line 36, or by
\* an exception
GenEnded == pc \in {"gen_done", "returned", "raised"}

\* discovery went through every file and the modules were grouped
Grouped == pc \in {"generate", "gen_done"} \/ (pc = "raised" /\ exc = "TypeError")

\* the surviving modules of a category, in discovery order
ModulesOf(category) ==
  SelectSeq(modules, LAMBDA m : Len(Segments(m)) >= 2 /\ Segments(m)[2] = category)

\* c is an inferred container of the list: at least 3 segments, not listed,
\* not the root, two listed modules or more below it
IsInferred(lst, main, c) ==
  /\ Len(Segments(c)) >= 3
  /\ ~InList(lst, c)
  /\ c # main
  /\ Cardinality({n \in 1..Len(lst) : IsUnder(lst[n], c)}) >= 2

\* the directive blocks of a listing text, in order: the module each names
\* and the option lines that follow it
Blocks(text) ==
  LET lines == SplitLines(text)
      starts == {i \in 1..Len(lines) : StartsWith(lines[i], <<":",":",":"," ">>)}
      nth(k) == CHOOSE i \in starts : Cardinality({j \in starts : j < i}) = k - 1
  IN  [k \in 1..Cardinality(starts) |->
         [module |-> SubSeq(lines[nth(k)], 5, Len(lines[nth(k)])),
          options |-> {lines[j] : j \in {j \in (nth(k) + 1)..Len(lines) :
                                           \A i \in starts : ~(nth(k) < i /\ i <= j)}}]]

\* the blocks of the listing file written for a category
ListingBlocks(category) == Blocks(DictGet(listings, category \o <<".","m","d">>))

\* C12: when on_pre_build has ended after grouping the surviving modules,
\* each category has its listing file, and in it the root module
\* strands.<category> is the first block, appears exactly once and is
\* member-suppressed, and the other modules follow in lexicographic order.
C12_RootFirstInListing ==
  (Grouped /\ GenEnded) =>
    \A n \in 1..Len(categories) :
       LET category == categories[n][1]
           b == ListingBlocks(category)
       IN  /\ DictHas(listings, category \o <<".","m","d">>)
           /\ Len(b) >= 1
           /\ b[1].module = MainPrefix \o category
           /\ <<" "," "," "," "," "," ","m","e","m","b","e","r","s",":"," ","f","a","l","s","e">> \in b[1].options
           /\ \A k \in 2..Len(b) : b[k].module # MainPrefix \o category
           /\ \A j, k \in 2..Len(b) : j < k => StrLess(b[j].module, b[k].module)

\* C14: when on_pre_build has ended after grouping the surviving modules,
\* each category has its listing file, and every block in it carries the
\* heading level min(number of dotted segments - 1, 3).
C14_HeadingLevelCapped ==
  (Grouped /\ GenEnded) =>
    \A n \in 1..Len(categories) :
       /\ DictHas(listings, categories[n][1] \o <<".","m","d">>)
       /\ \A k \in 1..Len(ListingBlocks(categories[n][1])) :
            LET b == ListingBlocks(categories[n][1])[k]
                segments == Len(Segments(b.module))
            IN  (<<" "," "," "," "," "," ","h","e","a","d","i","n","g","_","l","e","v","e","l",":"," ">> \o
                   << CASE segments = 2 -> "1" [] segments = 3 -> "2" [] OTHER -> "3" >>)
                \in b.options

\* C15: when the clone failed, by whatever exception, on_pre_build ends by
\* returning to its caller, the scratch directory does not exist and no
\* listing file was written.
C15_CloneFailureCleansUp ==
  (GenEnded /\ clone # "ok") =>
    /\ pc = "returned"
    /\ scratch = "none"
    /\ listings = <<>>

\* C16: on every path by which on_pre_build ends, the scratch directory has
\* been removed.
C16_ScratchRemovedAtEnd ==
  GenEnded => scratch = "none"

\* C17: no candidate whose import fails ends the run with its exception, and
\* every module named in a listing is the module of a non-private candidate
\* that imported, the category root or an inferred container.
C17_ImportFailureNeverFails ==
  /\ \A n \in 1..Len(candidates) :
       candidates[n].imp # "ok" => ~(pc = "raised" /\ item = n /\ exc = candidates[n].imp)
  /\ \A n \in 1..Len(listings) :
       \A k \in 1..Len(Blocks(listings[n][2])) :
          LET m == Blocks(listings[n][2])[k].module
              main == MainPrefix \o Segments(m)[2]
          IN  \/ \E c \in 1..Len(candidates) :
                    /\ ~IsPrivate(candidates[c].path)
                    /\ candidates[c].imp = "ok"
                    /\ ModuleOf(candidates[c].path) = m
              \/ m = main
              \/ IsInferred(ModulesOf(Segments(m)[2]), main, m)

\* C19: when on_pre_build has ended after grouping the surviving modules,
\* each category has its listing file, and a block in it carries
\* "members: false" if and only if its module is the category root or an
\* inferred container.
C19_MembersFalseIffContainer ==
  (Grouped /\ GenEnded) =>
    \A n \in 1..Len(categories) :
       LET category == categories[n][1]
           main == MainPrefix \o category
       IN  /\ DictHas(listings, category \o <<".","m","d">>)
           /\ \A k \in 1..Len(ListingBlocks(category)) :
                LET b == ListingBlocks(category)[k]
                IN  (<<" "," "," "," "," "," ","m","e","m","b","e","r","s",":"," ","f","a","l","s","e">> \in b.options)
                    <=> (b.module = main \/ IsInferred(ModulesOf(category), main, b.module))

\* C20: once the surviving modules are grouped, the categories are exactly
\* the second segments of the surviving modules, in the order of their first
\* module, each category holds exactly the modules with that second segment,
\* in discovery order, and each module is in exactly one category.
C20_CategoriesPartition ==
  Grouped =>
    /\ DictKeys(categories) = {Segments(modules[n])[2] : n \in 1..Len(modules)}
    /\ \A j, k \in 1..Len(categories) :
         j < k => /\ categories[j][1] # categories[k][1]
                  /\ \E a \in 1..Len(modules) :
                       /\ Segments(modules[a])[2] = categories[j][1]
                       /\ \A b \in 1..a : Segments(modules[b])[2] # categories[k][1]
    /\ \A k \in 1..Len(categories) :
         /\ categories[k][2] # <<>>
         /\ categories[k][2] = ModulesOf(categories[k][1])
    /\ \A n \in 1..Len(modules) :
         Cardinality({k \in 1..Len(categories) : InList(categories[k][2], modules[n])}) = 1

\* C20 witness: three surviving modules, the first and the third of one
\* category and the second of another, grouped into two categories.
C20_Witness ==
  /\ Grouped
  /\ Len(modules) = 3
  /\ Segments(modules[1])[2] = Segments(modules[3])[2]
  /\ Segments(modules[1])[2] # Segments(modules[2])[2]
  /\ Len(categories) = 2
  /\ Len(categories[1][2]) = 2

\* C21: when on_pre_build has ended after a successful clone and the grouping
\* of the surviving modules, the listings written are exactly one file per
\* category, named <category>.md, and the modules its directive blocks name
\* are the category's surviving modules, the containers inferred from them
\* and the root strands.<category>, each named by exactly one block.
C21_OneListingPerCategory ==
  (Grouped /\ GenEnded) =>
    /\ DictKeys(listings) = {categories[n][1] \o <<".","m","d">> : n \in 1..Len(categories)}
    /\ Len(listings) = Len(categories)
    /\ \A n \in 1..Len(categories) :
         LET category == categories[n][1]
             main == MainPrefix \o category
             members == ModulesOf(category)
             b == ListingBlocks(category)
         IN  /\ \A j, k \in 1..Len(b) : b[j].module = b[k].module => j = k
             /\ \E k \in 1..Len(b) : b[k].module = main
             /\ \A i \in 1..Len(members) : \E k \in 1..Len(b) : b[k].module = members[i]
             /\ \A i \in 1..Len(members) :
                  \A d \in 3..(Len(Segments(members[i])) - 1) :
                     LET c == JoinOn(SubSeq(Segments(members[i]), 1, d), ".")
                     IN  IsInferred(members, main, c) =>
                           \E k \in 1..Len(b) : b[k].module = c
             /\ \A k \in 1..Len(b) :
                  \/ b[k].module = main
                  \/ InList(members, b[k].module)
                  \/ IsInferred(members, main, b[k].module)

====
